---- MODULE Spec2Model ----
(***************************************************************************)
(* Money-transfer engine of the payment REST service                      *)
(* (app/api/transactions.py, app/api/accounts.py).                        *)
(*                                                                         *)
(* The committed database state is `balance` (accounts table), `records`  *)
(* (transactions table) and `lock` (row locks taken by SELECT ... FOR      *)
(* UPDATE).  Every request runs in its own SQLAlchemy session: what it has *)
(* read and not yet committed lives in `loc`, its position in the handler  *)
(* in `pc`.  Amounts and balances are counted in hundredths               *)
(* (Numeric(12, 2)).  Every database round trip of create_transaction may  *)
(* raise SQLAlchemyError.                                                  *)
(*                                                                         *)
(* A commit is one step: it either stores everything the session holds or  *)
(* raises and stores nothing.  SELECT ... FOR UPDATE blocks while another  *)
(* transaction holds the row and then reads the committed row.  Requests   *)
(* are interchangeable, so request r + 1 is submitted after request r;     *)
(* so are e-mail addresses, and a new account takes the first one not in   *)
(* use.                                                                    *)
(* The `owner` field of a record is the request that stored it; it stands  *)
(* for the link between an attempt and the rows it wrote.                  *)
(***************************************************************************)
EXTENDS Integers, Sequences, FiniteSets

MaxAccounts == 2
MaxReqs == 2
MaxInit == 2
MaxAmount == 2
MaxFaults == 1
MaxNames == 1
MaxTokens == 1
MaxSkip == 1
MaxLimit == 2

Reqs == 1..MaxReqs
\* What a client may send; the schemas decide what gets through.
InitInputs == -1..MaxInit
AmountInputs == -1..MaxAmount
\* Account identifiers a request may name: one more than can ever exist.
IdInputs == 1..(MaxAccounts + 1)
\* Names, e-mail addresses and payment tokens; 0 stands for a field left out.
NameInputs == 1..MaxNames
EmailInputs == 1..MaxAccounts
TokenInputs == 1..MaxTokens
SkipInputs == 0..MaxSkip
LimitInputs == 1..MaxLimit

VARIABLES
    balance,   \* accounts table: id -> committed balance
    initial,   \* id -> the initial_balance the account was created with
    lock,      \* id -> request holding the row lock, 0 when free
    records,   \* transactions table, in insertion order
    pc,        \* request -> position in create_transaction
    data,      \* request -> the TransactionCreate it was called with
    loc,       \* request -> balances loaded into its session
    result,    \* request -> what the caller was told
    avail,     \* request -> "Available" figure of the 400 detail
    faults,    \* storage failures raised so far
    profile,   \* accounts table: id -> name and email
    methods    \* payment_methods table, in insertion order

vars == <<balance, initial, lock, records, pc, data, loc, result, avail, faults,
          profile, methods>>

NoData == [from_account_id |-> 0, to_account_id |-> 0, amount |-> 0]
NoLoc == [from_balance |-> 0, to_balance |-> 0]

\* AccountCreate.initial_balance: Field(ge=0)
InitialBalanceValidAny(b) == TRUE
InitialBalanceValid(b) == b >= 0

\* TransactionBase.amount: Field(gt=0)
AmountValidAny(a) == TRUE
AmountValid(a) == a > 0

\* transaction_data.from_account_id == transaction_data.to_account_id
SameAccountNever(f, t) == FALSE
SameAccount(f, t) == f = t

\* db.query(Account).filter(Account.id == id).first() is not None
Found(id) == id \in DOMAIN balance

\* A FOR UPDATE row lock is granted only when no other transaction holds it.
LockFreeAlways(id) == TRUE
LockFree(id) == lock[id] = 0

\* not (from_account.balance < transaction_data.amount)
SufficientAlways(bal, amt) == TRUE
Sufficient(bal, amt) == ~(bal < amt)

\* from_account.balance -= transaction_data.amount
DebitTwice(bal, amt) == bal - amt - amt
Debit(bal, amt) == bal - amt

\* to_account.balance += transaction_data.amount
CreditNothing(bal, amt) == bal
Credit(bal, amt) == bal + amt

\* A row of the transactions table as the session inserts it: the request
\* fields, the status and completed_at handed to the constructor.
Transaction(r, st, at) ==
    [owner |-> r, from_account_id |-> data[r].from_account_id,
     to_account_id |-> data[r].to_account_id, amount |-> data[r].amount,
     status |-> st, completed_at |-> at]

\* Transaction(..., status="Failed", completed_at=datetime.utcnow())
FailedRecordNoAmount(r) ==
    [Transaction(r, "Failed", "now") EXCEPT !.amount = 0]
\* The constructor called without status and completed_at: column defaults.
FailedRecordPending(r) == Transaction(r, "Pending", "null")
FailedRecord(r) == Transaction(r, "Failed", "now")

\* Transaction(..., status="Completed", completed_at=datetime.utcnow())
CompletedRecord(r) == Transaction(r, "Completed", "now")

\* Ending a database transaction (commit, rollback, close) drops its row locks.
Released(r) == [a \in DOMAIN lock |-> IF lock[a] = r THEN 0 ELSE lock[a]]

\* The account a request is blocked on, 0 when it is not blocked.
WaitingOn(r) ==
    IF pc[r] = "lockFrom" /\ Found(data[r].from_account_id)
          /\ ~LockFree(data[r].from_account_id)
    THEN data[r].from_account_id
    ELSE IF pc[r] = "lockTo" /\ Found(data[r].to_account_id)
          /\ ~LockFree(data[r].to_account_id)
    THEN data[r].to_account_id
    ELSE 0

\* r waits for a lock that q holds.
WaitsFor(r, q) == WaitingOn(r) # 0 /\ lock[WaitingOn(r)] = q

RECURSIVE Blockers(_, _)
\* The requests r waits for, directly or through at most n others.
Blockers(r, n) ==
    LET direct == {q \in Reqs : WaitsFor(r, q)}
    IN  IF n = 0 THEN direct
        ELSE direct \cup UNION {Blockers(q, n - 1) : q \in direct}

\* r is part of a cycle of lock waits.
Deadlocked(r) == r \in Blockers(r, MaxReqs)

Init ==
    /\ balance = << >>
    /\ initial = << >>
    /\ lock = << >>
    /\ records = << >>
    /\ pc = [r \in Reqs |-> "idle"]
    /\ data = [r \in Reqs |-> NoData]
    /\ loc = [r \in Reqs |-> NoLoc]
    /\ result = [r \in Reqs |-> "none"]
    /\ avail = [r \in Reqs |-> 0]
    /\ faults = 0
    /\ profile = << >>
    /\ methods = << >>

\* The unique index on accounts.email: another account has this address.
EmailTaken(e, a) ==
    \E b \in DOMAIN profile : b # a /\ profile[b].email = e

\* POST /accounts: add, commit, refresh; IntegrityError gives 400.
CreateAccount ==
    \E b \in InitInputs, n \in NameInputs, e \in EmailInputs :
        /\ InitialBalanceValid(b)
        /\ Len(balance) < MaxAccounts
        /\ IF EmailTaken(e, 0)
           THEN UNCHANGED vars
           ELSE /\ \A x \in EmailInputs : x < e => EmailTaken(x, 0)
                /\ balance' = Append(balance, b)
                /\ initial' = Append(initial, b)
                /\ lock' = Append(lock, 0)
                /\ profile' = Append(profile, [name |-> n, email |-> e])
                /\ UNCHANGED <<records, pc, data, loc, result, avail, faults,
                               methods>>

\* create_transaction entered with from f, to t, amount a: the
\* self-transfer check, the first statement of the handler.
Enter(r, f, t, a) ==
    /\ pc[r] = "idle"
    /\ \A q \in Reqs : q < r => pc[q] # "idle"
    /\ data' = [data EXCEPT ![r] =
                  [from_account_id |-> f, to_account_id |-> t, amount |-> a]]
    /\ IF SameAccount(f, t)
       THEN /\ result' = [result EXCEPT ![r] = "InvalidRequest"]
            /\ pc' = [pc EXCEPT ![r] = "closing"]
       ELSE /\ pc' = [pc EXCEPT ![r] = "lockFrom"]
            /\ UNCHANGED result
    /\ UNCHANGED <<balance, initial, lock, records, loc, avail, faults, profile, methods>>

\* POST /transactions: schema validation, then the handler.
Submit(r) ==
    \E f \in IdInputs, t \in IdInputs, a \in AmountInputs :
        /\ AmountValid(a)
        /\ Enter(r, f, t, a)

\* create_transaction called as a function, with a TransactionCreate that
\* did not go through validation.
CallDirect(r) ==
    \E f \in IdInputs, t \in IdInputs, a \in AmountInputs :
        Enter(r, f, t, a)

\* Step 1: SELECT the source row FOR UPDATE.
LockFrom(r) ==
    LET f == data[r].from_account_id IN
    /\ pc[r] = "lockFrom"
    /\ IF ~Found(f)
       THEN /\ result' = [result EXCEPT ![r] = "NotFound"]
            /\ pc' = [pc EXCEPT ![r] = "closing"]
            /\ UNCHANGED <<lock, loc>>
       ELSE /\ LockFree(f)
            /\ lock' = [lock EXCEPT ![f] = r]
            /\ loc' = [loc EXCEPT ![r].from_balance = balance[f]]
            /\ pc' = [pc EXCEPT ![r] = "lockTo"]
            /\ UNCHANGED result
    /\ UNCHANGED <<balance, initial, records, data, avail, faults, profile, methods>>

\* Step 2: SELECT the destination row FOR UPDATE.
LockToRecordingMiss(r) ==
    LET t == data[r].to_account_id IN
    /\ pc[r] = "lockTo"
    /\ IF ~Found(t)
       THEN /\ result' = [result EXCEPT ![r] = "NotFound"]
            /\ pc' = [pc EXCEPT ![r] = "closing"]
            /\ records' = Append(records, FailedRecord(r))
            /\ UNCHANGED <<lock, loc>>
       ELSE /\ LockFree(t)
            /\ lock' = [lock EXCEPT ![t] = r]
            /\ loc' = [loc EXCEPT ![r].to_balance = balance[t]]
            /\ pc' = [pc EXCEPT ![r] = "decide"]
            /\ UNCHANGED <<result, records>>
    /\ UNCHANGED <<balance, initial, data, avail, faults, profile, methods>>
LockToUnlocked(r) ==
    LET t == data[r].to_account_id IN
    /\ pc[r] = "lockTo"
    /\ IF ~Found(t)
       THEN /\ result' = [result EXCEPT ![r] = "NotFound"]
            /\ pc' = [pc EXCEPT ![r] = "closing"]
            /\ UNCHANGED loc
       ELSE /\ loc' = [loc EXCEPT ![r].to_balance = balance[t]]
            /\ pc' = [pc EXCEPT ![r] = "decide"]
            /\ UNCHANGED result
    /\ UNCHANGED <<balance, initial, lock, records, data, avail, faults, profile, methods>>
LockTo(r) ==
    LET t == data[r].to_account_id IN
    /\ pc[r] = "lockTo"
    /\ IF ~Found(t)
       THEN /\ result' = [result EXCEPT ![r] = "NotFound"]
            /\ pc' = [pc EXCEPT ![r] = "closing"]
            /\ UNCHANGED <<lock, loc>>
       ELSE /\ LockFree(t)
            /\ lock' = [lock EXCEPT ![t] = r]
            /\ loc' = [loc EXCEPT ![r].to_balance = balance[t]]
            /\ pc' = [pc EXCEPT ![r] = "decide"]
            /\ UNCHANGED result
    /\ UNCHANGED <<balance, initial, records, data, avail, faults, profile, methods>>

\* Step 3, insufficient: add the Failed record and commit it.
CommitFailed(r) ==
    /\ pc[r] = "decide"
    /\ ~Sufficient(loc[r].from_balance, data[r].amount)
    /\ records' = Append(records, FailedRecord(r))
    /\ lock' = Released(r)
    /\ pc' = [pc EXCEPT ![r] = "raiseInsufficient"]
    /\ UNCHANGED <<balance, initial, data, loc, result, avail, faults, profile, methods>>

\* db.refresh(failed_transaction), then the 400 whose detail reads
\* from_account.balance: the commit expired the attribute, so it is loaded
\* again, without a lock.
RaiseInsufficient(r) ==
    /\ pc[r] = "raiseInsufficient"
    /\ avail' = [avail EXCEPT ![r] = balance[data[r].from_account_id]]
    /\ result' = [result EXCEPT ![r] = "InsufficientBalance"]
    /\ pc' = [pc EXCEPT ![r] = "closing"]
    /\ UNCHANGED <<balance, initial, lock, records, data, loc, faults, profile, methods>>

\* Steps 4-7: debit, credit, add the Completed record, commit.  The flush
\* writes the balances the session computed from what it had loaded.
CommitCompletedDeduplicating(r) ==
    LET f == data[r].from_account_id
        t == data[r].to_account_id
        seen == \E i \in 1..Len(records) :
                    /\ records[i].status = "Completed"
                    /\ records[i].from_account_id = f
                    /\ records[i].to_account_id = t
                    /\ records[i].amount = data[r].amount
    IN
    /\ pc[r] = "decide"
    /\ Sufficient(loc[r].from_balance, data[r].amount)
    /\ IF seen
       THEN UNCHANGED <<balance, records>>
       ELSE /\ balance' = [balance EXCEPT
                            ![f] = Debit(loc[r].from_balance, data[r].amount),
                            ![t] = Credit(loc[r].to_balance, data[r].amount)]
            /\ records' = Append(records, CompletedRecord(r))
    /\ lock' = Released(r)
    /\ pc' = [pc EXCEPT ![r] = "refresh"]
    /\ UNCHANGED <<initial, data, loc, result, avail, faults, profile, methods>>
CommitCompleted(r) ==
    LET f == data[r].from_account_id
        t == data[r].to_account_id
    IN
    /\ pc[r] = "decide"
    /\ Sufficient(loc[r].from_balance, data[r].amount)
    /\ balance' = [balance EXCEPT
                     ![f] = Debit(loc[r].from_balance, data[r].amount),
                     ![t] = Credit(loc[r].to_balance, data[r].amount)]
    /\ records' = Append(records, CompletedRecord(r))
    /\ lock' = Released(r)
    /\ pc' = [pc EXCEPT ![r] = "refresh"]
    /\ UNCHANGED <<initial, data, loc, result, avail, faults, profile, methods>>

\* db.refresh(new_transaction); return new_transaction
RefreshCompleted(r) ==
    /\ pc[r] = "refresh"
    /\ result' = [result EXCEPT ![r] = "Created"]
    /\ pc' = [pc EXCEPT ![r] = "closing"]
    /\ UNCHANGED <<balance, initial, lock, records, data, loc, avail, faults, profile, methods>>

\* Any query, commit or refresh inside the try block raises SQLAlchemyError.
StorageFault(r) ==
    /\ pc[r] \in {"lockFrom", "lockTo", "decide", "raiseInsufficient", "refresh"}
    /\ faults < MaxFaults
    /\ faults' = faults + 1
    /\ pc' = [pc EXCEPT ![r] = "error"]
    /\ UNCHANGED <<balance, initial, lock, records, data, loc, result, avail, profile, methods>>

\* The database breaks a cycle of lock waits by failing one of the waiters.
DeadlockAbort(r) ==
    /\ Deadlocked(r)
    /\ pc' = [pc EXCEPT ![r] = "error"]
    /\ UNCHANGED <<balance, initial, lock, records, data, loc, result, avail, faults, profile, methods>>

\* except SQLAlchemyError: db.rollback()
Rollback(r) ==
    /\ pc[r] = "error"
    /\ lock' = Released(r)
    /\ loc' = [loc EXCEPT ![r] = NoLoc]
    /\ pc' = [pc EXCEPT ![r] = "audit"]
    /\ UNCHANGED <<balance, initial, records, data, result, avail, faults, profile, methods>>

\* The best-effort Failed record and the 500.  The insert needs both
\* foreign keys to resolve; whatever it raises is swallowed.
AuditFailedOverwriting(r) ==
    /\ pc[r] = "audit"
    /\ \/ /\ Found(data[r].from_account_id)
          /\ Found(data[r].to_account_id)
          /\ records' = IF \E i \in 1..Len(records) : records[i].owner = r
                        THEN [i \in 1..Len(records) |->
                                IF records[i].owner = r
                                THEN FailedRecord(r) ELSE records[i]]
                        ELSE Append(records, FailedRecord(r))
       \/ UNCHANGED records
    /\ result' = [result EXCEPT ![r] = "TransferEngineError"]
    /\ pc' = [pc EXCEPT ![r] = "closing"]
    /\ UNCHANGED <<balance, initial, lock, data, loc, avail, faults, profile, methods>>
AuditFailedPropagating(r) ==
    /\ pc[r] = "audit"
    /\ \/ /\ Found(data[r].from_account_id)
          /\ Found(data[r].to_account_id)
          /\ records' = Append(records, FailedRecord(r))
          /\ result' = [result EXCEPT ![r] = "TransferEngineError"]
       \/ /\ UNCHANGED records
          /\ result' = [result EXCEPT ![r] = "AuditError"]
    /\ pc' = [pc EXCEPT ![r] = "closing"]
    /\ UNCHANGED <<balance, initial, lock, data, loc, avail, faults, profile, methods>>
AuditFailed(r) ==
    /\ pc[r] = "audit"
    /\ \/ /\ Found(data[r].from_account_id)
          /\ Found(data[r].to_account_id)
          /\ records' = Append(records, FailedRecord(r))
       \/ UNCHANGED records
    /\ result' = [result EXCEPT ![r] = "TransferEngineError"]
    /\ pc' = [pc EXCEPT ![r] = "closing"]
    /\ UNCHANGED <<balance, initial, lock, data, loc, avail, faults, profile, methods>>

\* get_db: finally db.close()
CloseKeepingLocks(r) ==
    /\ pc[r] = "closing"
    /\ loc' = [loc EXCEPT ![r] = NoLoc]
    /\ pc' = [pc EXCEPT ![r] = "done"]
    /\ UNCHANGED <<balance, initial, lock, records, data, result, avail, faults, profile, methods>>
Close(r) ==
    /\ pc[r] = "closing"
    /\ lock' = Released(r)
    /\ loc' = [loc EXCEPT ![r] = NoLoc]
    /\ pc' = [pc EXCEPT ![r] = "done"]
    /\ UNCHANGED <<balance, initial, records, data, result, avail, faults, profile, methods>>

(***************************************************************************)
(* The rest of the service: account profiles, payment methods, reads.      *)
(* A read hands its response to the caller and leaves the database alone.  *)
(***************************************************************************)
NotFoundResponse == [status |-> "NotFound"]

\* PATCH /accounts/{id}: name and email when given (0: left out); the
\* UPDATE waits for a row lock and IntegrityError gives 400.
UpdateAccountResettingBalance(a, n, e) ==
    /\ Found(a)
    /\ LockFree(a)
    /\ ~(e # 0 /\ EmailTaken(e, a))
    /\ profile' = [profile EXCEPT ![a] =
                     [name |-> IF n # 0 THEN n ELSE @.name,
                      email |-> IF e # 0 THEN e ELSE @.email]]
    /\ balance' = [balance EXCEPT ![a] = 0]
    /\ UNCHANGED <<initial, lock, records, pc, data, loc, result, avail,
                   faults, methods>>
UpdateAccount(a, n, e) ==
    IF ~Found(a) \/ (e # 0 /\ EmailTaken(e, a))
    THEN UNCHANGED vars
    ELSE LET new == [name |-> IF n # 0 THEN n ELSE profile[a].name,
                     email |-> IF e # 0 THEN e ELSE profile[a].email]
         IN  /\ new # profile[a] => LockFree(a)
             /\ profile' = [profile EXCEPT ![a] = new]
             /\ UNCHANGED <<balance, initial, lock, records, pc, data, loc,
                            result, avail, faults, methods>>

\* AccountResponse
AccountResponse(a) ==
    [status |-> "ok", id |-> a, name |-> profile[a].name,
     email |-> profile[a].email, balance |-> balance[a]]

\* GET /accounts/{id}
GetAccount ==
    \E a \in IdInputs :
        \E resp \in {IF Found(a) THEN AccountResponse(a) ELSE NotFoundResponse} :
            UNCHANGED vars

\* The orders in which a query without ORDER BY may return n rows.
Orders(n) ==
    {p \in [1..n -> 1..n] : \A i \in 1..n, j \in 1..n : p[i] = p[j] => i = j}

\* .offset(skip).limit(limit) applied to the rows as returned.
Page(rows, skip, limit) ==
    SubSeq(rows, skip + 1,
           IF skip + limit < Len(rows) THEN skip + limit ELSE Len(rows))

\* GET /accounts
ListAccounts ==
    \E skip \in SkipInputs, limit \in LimitInputs :
        \E p \in Orders(Len(balance)) :
            \E resp \in {Page([i \in 1..Len(balance) |-> AccountResponse(p[i])],
                              skip, limit)} :
                UNCHANGED vars

\* The unique index on payment_methods.token_id.
TokenTaken(tok) == \E i \in 1..Len(methods) : methods[i].token_id = tok

\* POST /methods: 404 for a missing account, IntegrityError gives 400.
CreatePaymentMethod(a, tok) ==
    IF ~Found(a) \/ TokenTaken(tok)
    THEN UNCHANGED vars
    ELSE /\ methods' = Append(methods, [account_id |-> a, token_id |-> tok])
         /\ UNCHANGED <<balance, initial, lock, records, pc, data, loc,
                        result, avail, faults, profile>>

\* GET /methods/{id}
GetPaymentMethod ==
    \E i \in 1..(Len(methods) + 1) :
        \E resp \in {IF i <= Len(methods)
                     THEN [status |-> "ok", method |-> methods[i]]
                     ELSE NotFoundResponse} :
            UNCHANGED vars

\* GET /methods/account/{id}
ListAccountPaymentMethods ==
    \E a \in IdInputs :
        \E resp \in {IF Found(a)
                     THEN [status |-> "ok",
                           items |-> SelectSeq(methods,
                                        LAMBDA m : m.account_id = a)]
                     ELSE NotFoundResponse} :
            UNCHANGED vars

\* GET /transactions/{id}
GetTransaction ==
    \E i \in 1..(Len(records) + 1) :
        \E resp \in {IF i <= Len(records)
                     THEN [status |-> "ok", transaction |-> records[i]]
                     ELSE NotFoundResponse} :
            UNCHANGED vars

\* The records sent or received by account a, oldest first.
Touching(a) ==
    SelectSeq(records,
              LAMBDA rec : rec.from_account_id = a \/ rec.to_account_id = a)

\* What GET /transactions/account/{id}?skip=&limit= may answer: 404 for a
\* missing account, else the filter, offset and limit of a query that has
\* no ORDER BY.
ListResponses(a, skip, limit) ==
    IF ~Found(a)
    THEN {[status |-> "NotFound", items |-> << >>]}
    ELSE LET rows == Touching(a) IN
         {[status |-> "ok",
           items |-> Page([i \in 1..Len(rows) |-> rows[p[i]]], skip, limit)] :
            p \in Orders(Len(rows))}

\* GET /transactions/account/{id}
ListAccountTransactions ==
    \E a \in IdInputs, skip \in SkipInputs, limit \in LimitInputs :
        \E resp \in ListResponses(a, skip, limit) :
            UNCHANGED vars

\* A transfer submitted while no other transfer is in flight.
SubmitAlone(r) ==
    /\ \A q \in Reqs \ {r} : pc[q] \in {"idle", "done"}
    /\ Submit(r)

Next ==
    \/ CreateAccount
    \/ \E r \in Reqs : Submit(r)
    \/ \E r \in Reqs : LockFrom(r)
    \/ \E r \in Reqs : LockTo(r)
    \/ \E r \in Reqs : CommitFailed(r)
    \/ \E r \in Reqs : RaiseInsufficient(r)
    \/ \E r \in Reqs : CommitCompleted(r)
    \/ \E r \in Reqs : RefreshCompleted(r)
    \/ \E r \in Reqs : StorageFault(r)
    \/ \E r \in Reqs : DeadlockAbort(r)
    \/ \E r \in Reqs : Rollback(r)
    \/ \E r \in Reqs : AuditFailed(r)
    \/ \E r \in Reqs : Close(r)

Spec == Init /\ [][Next]_vars

\* The engine on its own: create_transaction is called without the request
\* schema in front of it.
NextEngine ==
    \/ CreateAccount
    \/ \E r \in Reqs : CallDirect(r)
    \/ \E r \in Reqs : LockFrom(r)
    \/ \E r \in Reqs : LockTo(r)
    \/ \E r \in Reqs : CommitFailed(r)
    \/ \E r \in Reqs : RaiseInsufficient(r)
    \/ \E r \in Reqs : CommitCompleted(r)
    \/ \E r \in Reqs : RefreshCompleted(r)
    \/ \E r \in Reqs : StorageFault(r)
    \/ \E r \in Reqs : DeadlockAbort(r)
    \/ \E r \in Reqs : Rollback(r)
    \/ \E r \in Reqs : AuditFailed(r)
    \/ \E r \in Reqs : Close(r)

SpecEngine == Init /\ [][NextEngine]_vars

\* get_db closes the session of every handler that has finished.
SpecLive == Spec /\ \A r \in Reqs : WF_vars(Close(r))

\* The whole service, its transfers one at a time.
NextService ==
    \/ CreateAccount
    \/ \E r \in Reqs : SubmitAlone(r)
    \/ \E r \in Reqs : LockFrom(r)
    \/ \E r \in Reqs : LockTo(r)
    \/ \E r \in Reqs : CommitFailed(r)
    \/ \E r \in Reqs : RaiseInsufficient(r)
    \/ \E r \in Reqs : CommitCompleted(r)
    \/ \E r \in Reqs : RefreshCompleted(r)
    \/ \E r \in Reqs : StorageFault(r)
    \/ \E r \in Reqs : Rollback(r)
    \/ \E r \in Reqs : AuditFailed(r)
    \/ \E r \in Reqs : Close(r)
    \/ \E a \in IdInputs, n \in {0} \cup NameInputs, e \in {0} \cup EmailInputs :
         UpdateAccount(a, n, e)
    \/ GetAccount
    \/ ListAccounts
    \/ \E a \in IdInputs, tok \in TokenInputs : CreatePaymentMethod(a, tok)
    \/ GetPaymentMethod
    \/ ListAccountPaymentMethods
    \/ GetTransaction
    \/ ListAccountTransactions

SpecService == Init /\ [][NextService]_vars

(***************************************************************************)
(* Helpers of the properties.                                              *)
(***************************************************************************)
\* The positions of the records request r has persisted.
Owned(r) == {i \in 1..Len(records) : records[i].owner = r}
OwnedWith(r, st) == {i \in Owned(r) : records[i].status = st}
\* The positions a step appends to the transactions table.
Added == (Len(records) + 1)..Len(records')
AddedCompleted == {i \in Added : records'[i].status = "Completed"}

RECURSIVE NetCompleted(_, _)
\* What the first n records, read as a ledger, moved into account a.
NetCompleted(a, n) ==
    IF n = 0 THEN 0
    ELSE LET rec == records[n]
             d == IF rec.status # "Completed" THEN 0
                  ELSE (IF rec.to_account_id = a THEN rec.amount ELSE 0)
                       - (IF rec.from_account_id = a THEN rec.amount ELSE 0)
         IN  NetCompleted(a, n - 1) + d

\* C1: a transfer between two existing, distinct accounts whose source
\* balance covers the amount at the sufficiency check either commits or hits
\* a storage failure; when it commits, the source is lower by exactly the
\* amount, the destination higher by exactly the amount, and their sum is
\* unchanged.
C1TransferMovesAmount ==
    [][\A r \in Reqs :
         (pc[r] = "decide" /\ loc[r].from_balance >= data[r].amount
            /\ pc'[r] # pc[r])
         => LET f == data[r].from_account_id
                t == data[r].to_account_id
                a == data[r].amount
            IN  /\ pc'[r] \in {"refresh", "error"}
                /\ pc'[r] = "refresh" =>
                     /\ balance'[f] = balance[f] - a
                     /\ balance'[t] = balance[t] + a
                     /\ balance'[f] + balance'[t] = balance[f] + balance[t]]_vars

\* A transfer has just committed: its record is stored and both balances
\* differ from the initial ones by its amount.
C1Witness ==
    \E r \in Reqs :
        /\ pc[r] = "refresh"
        /\ OwnedWith(r, "Completed") # {}
        /\ balance[data[r].from_account_id]
             = initial[data[r].from_account_id] - data[r].amount
        /\ balance[data[r].to_account_id]
             = initial[data[r].to_account_id] + data[r].amount

\* Requests 1 and 2 are the only transfers, go from the same source to the
\* same destination, each is affordable against the starting balance, both
\* together are not, and neither met a storage failure.
C2Scenario ==
    /\ \A q \in Reqs : q > 2 => pc[q] = "idle"
    /\ pc[1] = "done" /\ pc[2] = "done"
    /\ {result[1], result[2]} \subseteq {"Created", "InsufficientBalance"}
    /\ data[1].from_account_id = data[2].from_account_id
    /\ data[1].to_account_id = data[2].to_account_id
    /\ data[1].amount <= initial[data[1].from_account_id]
    /\ data[2].amount <= initial[data[1].from_account_id]
    /\ data[1].amount + data[2].amount > initial[data[1].from_account_id]

\* C2: two concurrent transfers over the same ordered pair, each affordable
\* alone but not both, end with exactly one Completed and one Failed record,
\* and the source has lost exactly the amount of the completed one.
C2OneWinsOneFails ==
    C2Scenario =>
        /\ Len(records) = 2
        /\ \E w \in {1, 2} :
             /\ Cardinality(OwnedWith(w, "Completed")) = 1
             /\ Cardinality(Owned(w)) = 1
             /\ Cardinality(OwnedWith(3 - w, "Failed")) = 1
             /\ Cardinality(Owned(3 - w)) = 1
             /\ balance[data[1].from_account_id]
                  = initial[data[1].from_account_id] - data[w].amount
             /\ balance[data[1].to_account_id]
                  = initial[data[1].to_account_id] + data[w].amount

\* The two transfers overlapped: request 2, submitted after request 1,
\* committed its record first.
C2Witness ==
    /\ C2Scenario
    /\ Len(records) = 2
    /\ records[1].owner = 2

\* C3: no two transfers ever each hold one account lock while waiting for
\* the lock the other holds.
C3NoLockCycle ==
    \A r \in Reqs, q \in Reqs : ~(r # q /\ WaitsFor(r, q) /\ WaitsFor(q, r))

\* C4: every committed balance is non-negative.
C4BalanceNonNegative ==
    \A a \in DOMAIN balance : balance[a] >= 0

\* A transfer has emptied a funded account.
C4Witness ==
    \E i \in 1..Len(records) :
        /\ records[i].status = "Completed"
        /\ initial[records[i].from_account_id] > 0
        /\ balance[records[i].from_account_id] = 0

\* C5: the debit, the credit and the Completed record reach the committed
\* state in one step or not at all.  A step that stores a Completed record
\* stores exactly one, is the commit of its owner, and moves exactly its
\* amount from its source to its destination; any other step leaves every
\* balance alone; a commit that fails, and the rollback after it, change
\* neither balances nor records.
C5AtomicUnit ==
    [][/\ Len(records') >= Len(records)
       /\ SubSeq(records', 1, Len(records)) = records
       /\ IF AddedCompleted = {}
          THEN \A a \in DOMAIN balance : balance'[a] = balance[a]
          ELSE \E i \in AddedCompleted :
                 LET rec == records'[i] IN
                 /\ Added = {i}
                 /\ pc[rec.owner] = "decide" /\ pc'[rec.owner] = "refresh"
                 /\ rec.from_account_id # rec.to_account_id
                 /\ balance' = [balance EXCEPT
                                  ![rec.from_account_id] = @ - rec.amount,
                                  ![rec.to_account_id] = @ + rec.amount]
       /\ \A r \in Reqs :
            (pc[r] \in {"decide", "error"} /\ pc'[r] \in {"error", "audit"}
               /\ pc'[r] # pc[r])
            => balance' = balance /\ records' = records]_vars

\* One transfer has committed its unit; another, holding both locks with a
\* sufficient balance, failed to commit and nothing of it is stored.
C5Witness ==
    \E r \in Reqs, q \in Reqs :
        /\ r # q
        /\ OwnedWith(q, "Completed") # {}
        /\ pc[r] = "error"
        /\ Found(data[r].from_account_id) /\ Found(data[r].to_account_id)
        /\ lock[data[r].from_account_id] = r
        /\ lock[data[r].to_account_id] = r
        /\ Sufficient(loc[r].from_balance, data[r].amount)
        /\ balance[data[r].from_account_id] = loc[r].from_balance
        /\ balance[data[r].to_account_id] = loc[r].to_balance
        /\ Owned(r) = {}

\* C6: ledger and record store agree.  Every balance is the initial balance
\* plus the Completed amounts received minus the Completed amounts sent, an
\* attempt has at most one Completed record, and a Failed record belongs to
\* an attempt that moved no money.
C6LedgerAgreesWithRecords ==
    /\ \A a \in DOMAIN balance :
         balance[a] = initial[a] + NetCompleted(a, Len(records))
    /\ \A r \in Reqs : Cardinality(OwnedWith(r, "Completed")) <= 1
    /\ \A r \in Reqs :
         OwnedWith(r, "Failed") # {} => OwnedWith(r, "Completed") = {}

\* C7: a transfer whose source balance is below the amount at the
\* sufficiency check either commits a Failed record or hits a storage
\* failure.  The commit changes no balance and stores one Failed record with
\* the requested amount and both account references; when
\* InsufficientBalance is reported that record is already stored, and it
\* stays the only record of the attempt.
C7InsufficientIsRecorded ==
    /\ [][\A r \in Reqs :
            /\ (pc[r] = "decide" /\ loc[r].from_balance < data[r].amount
                  /\ pc'[r] # pc[r])
               => /\ pc'[r] \in {"raiseInsufficient", "error"}
                  /\ pc'[r] = "raiseInsufficient" =>
                       /\ balance' = balance
                       /\ records' = Append(records,
                            [owner |-> r,
                             from_account_id |-> data[r].from_account_id,
                             to_account_id |-> data[r].to_account_id,
                             amount |-> data[r].amount,
                             status |-> "Failed",
                             completed_at |-> "now"])
            /\ (result[r] # "InsufficientBalance"
                  /\ result'[r] = "InsufficientBalance")
               => /\ Cardinality(Owned(r)) = 1
                  /\ balance' = balance
                  /\ records' = records]_vars
    /\ [](\A r \in Reqs :
            result[r] = "InsufficientBalance"
            => /\ Cardinality(Owned(r)) = 1
               /\ \A i \in Owned(r) :
                    /\ records[i].status = "Failed"
                    /\ records[i].amount = data[r].amount
                    /\ records[i].from_account_id = data[r].from_account_id
                    /\ records[i].to_account_id = data[r].to_account_id)

\* A caller has been told InsufficientBalance; the attempt's Failed record
\* is stored and the balances are the initial ones.
C7Witness ==
    \E r \in Reqs :
        /\ pc[r] = "done"
        /\ result[r] = "InsufficientBalance"
        /\ Cardinality(OwnedWith(r, "Failed")) = 1
        /\ balance = initial

\* C8: a request naming the same account as source and destination is
\* rejected as InvalidRequest at once, for every amount and for existing and
\* missing accounts alike; it takes no lock, stores no record and changes no
\* balance.
C8SelfTransferRejected ==
    /\ [][\A r \in Reqs :
            (pc[r] = "idle" /\ pc'[r] # "idle"
               /\ data'[r].from_account_id = data'[r].to_account_id)
            => /\ result'[r] = "InvalidRequest"
               /\ pc'[r] = "closing"
               /\ balance' = balance
               /\ records' = records
               /\ lock' = lock]_vars
    /\ [](\A r \in Reqs :
            (pc[r] # "idle" /\ data[r].from_account_id = data[r].to_account_id)
            => /\ result[r] = "InvalidRequest"
               /\ pc[r] \in {"closing", "done"}
               /\ Owned(r) = {}
               /\ \A a \in DOMAIN lock : lock[a] # r)

\* Two self-transfers have been rejected: one on an existing account, one
\* on an identifier that names no account.
C8Witness ==
    \E r \in Reqs, q \in Reqs :
        /\ result[r] = "InvalidRequest" /\ result[q] = "InvalidRequest"
        /\ pc[r] = "done" /\ pc[q] = "done"
        /\ Found(data[r].from_account_id)
        /\ ~Found(data[q].from_account_id)

\* C9: when the query for the source, or for the destination, finds no
\* account, the transfer ends with NotFound unless the query itself fails;
\* reporting NotFound stores no record and changes no balance, and a
\* transfer that reported NotFound never has a record.
C9MissingAccountNotFound ==
    /\ [][\A r \in Reqs :
            /\ ( /\ pc'[r] # pc[r]
                 /\ \/ pc[r] = "lockFrom" /\ ~Found(data[r].from_account_id)
                    \/ pc[r] = "lockTo" /\ ~Found(data[r].to_account_id) )
               => \/ pc'[r] = "error"
                  \/ pc'[r] = "closing" /\ result'[r] = "NotFound"
            /\ (result[r] # "NotFound" /\ result'[r] = "NotFound")
               => balance' = balance /\ records' = records]_vars
    /\ [](\A r \in Reqs : result[r] = "NotFound" => Owned(r) = {})

\* A transfer whose source exists and whose destination does not has ended
\* with NotFound.
C9Witness ==
    \E r \in Reqs :
        /\ pc[r] = "done"
        /\ result[r] = "NotFound"
        /\ Found(data[r].from_account_id)
        /\ ~Found(data[r].to_account_id)
        /\ balance = initial

\* C10: a transfer that reported TransferEngineError has no Completed
\* record, at most one record, a Failed one, and has moved no money: when it
\* is the only transfer so far, every balance is the initial one.
C10EngineErrorLeavesBalances ==
    \A r \in Reqs :
        result[r] = "TransferEngineError"
        => /\ OwnedWith(r, "Completed") = {}
           /\ Cardinality(Owned(r)) <= 1
           /\ (\A q \in Reqs \ {r} : pc[q] = "idle") => balance = initial

\* C11: on the storage-failure path the caller is told TransferEngineError
\* whether the best-effort Failed record was stored or its write failed:
\* the step after the rollback always reports TransferEngineError, with the
\* table either unchanged or longer by that one Failed record, and a request
\* that entered the except branch never reports anything else.
C11AuditNeverMasksError ==
    /\ [][\A r \in Reqs :
            (pc[r] = "audit" /\ pc'[r] # pc[r])
            => /\ result'[r] = "TransferEngineError"
               /\ pc'[r] = "closing"
               /\ \/ records' = records
                  \/ records' = Append(records, FailedRecord(r))]_vars
    /\ [][\A r \in Reqs :
            (pc[r] = "error" /\ pc'[r] # pc[r]) => pc'[r] = "audit"]_vars
    /\ [](\A r \in Reqs :
            result[r] = "TransferEngineError" => pc[r] \in {"closing", "done"})

\* A transfer has reported TransferEngineError although both accounts exist
\* and no record of it was stored: the audit write itself failed.
C11Witness ==
    \E r \in Reqs :
        /\ result[r] = "TransferEngineError"
        /\ pc[r] = "done"
        /\ Found(data[r].from_account_id)
        /\ Found(data[r].to_account_id)
        /\ Owned(r) = {}

\* C12: every stored record has status Completed or Failed and has
\* completed_at set; none is ever stored as Pending.
C12NoPendingRecord ==
    \A i \in 1..Len(records) :
        /\ records[i].status \in {"Completed", "Failed"}
        /\ records[i].completed_at = "now"

\* The table holds a Completed record, a Failed record of an insufficient
\* balance and a Failed record written after a storage failure.
C12Witness ==
    \E r \in Reqs, q \in Reqs :
        /\ r # q
        /\ OwnedWith(r, "Completed") # {}
        /\ result[r] = "Created"
        /\ OwnedWith(q, "Failed") # {}
        /\ result[q] = "TransferEngineError"

\* Requests 1 and 2 are the only transfers, carry the same source,
\* destination and amount, the source was created with at least twice the
\* amount, and neither ended with NotFound or a storage failure.
C15Scenario ==
    /\ \A q \in Reqs : q > 2 => pc[q] = "idle"
    /\ pc[1] = "done" /\ pc[2] = "done"
    /\ data[1] = data[2]
    /\ data[1].from_account_id # data[1].to_account_id
    /\ {result[1], result[2]} \subseteq {"Created", "InsufficientBalance"}
    /\ initial[data[1].from_account_id] >= 2 * data[1].amount

\* C15: the same transfer submitted twice is executed twice: two Completed
\* records, one per request, and the source debited, the destination
\* credited, by twice the amount.
C15NoDeduplication ==
    C15Scenario =>
        /\ result[1] = "Created" /\ result[2] = "Created"
        /\ Len(records) = 2
        /\ Cardinality(OwnedWith(1, "Completed")) = 1
        /\ Cardinality(OwnedWith(2, "Completed")) = 1
        /\ balance[data[1].from_account_id]
             = initial[data[1].from_account_id] - 2 * data[1].amount
        /\ balance[data[1].to_account_id]
             = initial[data[1].to_account_id] + 2 * data[1].amount

\* The same transfer has been carried out twice, request 1 first.
C15Witness ==
    /\ C15Scenario
    /\ Len(records) = 2
    /\ records[1].owner = 1 /\ records[2].owner = 2
    /\ records[1].status = "Completed" /\ records[2].status = "Completed"

\* The account locks request r holds.
Held(r) == {a \in DOMAIN lock : lock[a] = r}

\* C18 as stated: the sufficiency check and the balance mutation happen
\* with both locks held, every record a transfer stores is stored while it
\* holds both locks, and a lock is given up only when the transfer commits,
\* rolls back or closes its session.
C18AllWritesUnderLocks ==
    /\ [](\A r \in Reqs :
            /\ pc[r] = "decide" =>
                 Held(r) = {data[r].from_account_id, data[r].to_account_id}
            /\ pc[r] = "lockTo" => Held(r) = {data[r].from_account_id})
    /\ [][\A r \in Reqs :
            /\ (\E i \in Added : records'[i].owner = r)
               => Held(r) = {data[r].from_account_id, data[r].to_account_id}
            /\ (\E a \in Held(r) : lock'[a] # r)
               => /\ pc[r] \in {"decide", "error", "closing"}
                  /\ pc'[r] \in {"refresh", "raiseInsufficient", "audit", "done"}
                  /\ \A a \in DOMAIN lock : lock'[a] # r]_vars

\* C18, amended: the Completed record and the Failed record of an
\* insufficient balance are stored while both locks are held; the
\* best-effort Failed record of the storage-failure path is stored after
\* the rollback, when the transfer holds no lock.
C18WritesUnderLocksExceptAudit ==
    /\ [](\A r \in Reqs :
            /\ pc[r] = "decide" =>
                 Held(r) = {data[r].from_account_id, data[r].to_account_id}
            /\ pc[r] = "lockTo" => Held(r) = {data[r].from_account_id})
    /\ [][\A r \in Reqs :
            /\ (\E i \in Added : records'[i].owner = r)
               => \/ /\ pc[r] = "decide"
                     /\ Held(r) = {data[r].from_account_id,
                                   data[r].to_account_id}
                  \/ /\ pc[r] = "audit"
                     /\ Held(r) = {}
                     /\ \A i \in Added : records'[i].status = "Failed"
            /\ (\E a \in Held(r) : lock'[a] # r)
               => /\ pc[r] \in {"decide", "error", "closing"}
                  /\ pc'[r] \in {"refresh", "raiseInsufficient", "audit", "done"}
                  /\ \A a \in DOMAIN lock : lock'[a] # r]_vars

\* A transfer holds both locks at the sufficiency check while another one
\* waits for the source row.
C18Witness ==
    \E r \in Reqs, q \in Reqs :
        /\ pc[r] = "decide"
        /\ Held(r) = {data[r].from_account_id, data[r].to_account_id}
        /\ pc[q] = "lockFrom"
        /\ WaitsFor(q, r)

\* C19: no call of create_transaction leaves more than one record.
C19AtMostOneRecord ==
    \A r \in Reqs : Cardinality(Owned(r)) <= 1

\* C20: the "Available" figure of an InsufficientBalance error is the
\* balance that was compared with the amount under the lock, hence below
\* the required amount.
C20AvailableIsCheckedBalance ==
    \A r \in Reqs :
        result[r] = "InsufficientBalance"
        => /\ avail[r] < data[r].amount
           /\ pc[r] = "closing" => avail[r] = loc[r].from_balance

\* C14: create_transaction called with an amount that is not positive ends
\* with InvalidRequest, has stored no record and, when it is the only
\* transfer so far, has changed no balance.
C14NonPositiveAmountRejected ==
    \A r \in Reqs :
        (pc[r] = "done" /\ data[r].amount <= 0)
        => /\ result[r] = "InvalidRequest"
           /\ Owned(r) = {}
           /\ (\A q \in Reqs \ {r} : pc[q] = "idle") => balance = initial

\* C13: a stored transfer record with status Completed or Failed keeps its
\* status, amount, account references and completed_at through every later
\* operation of the service.
C13RecordsNeverChange ==
    [][\A i \in 1..Len(records) :
          records[i].status \in {"Completed", "Failed"}
          => /\ i <= Len(records')
             /\ records'[i].status = records[i].status
             /\ records'[i].amount = records[i].amount
             /\ records'[i].from_account_id = records[i].from_account_id
             /\ records'[i].to_account_id = records[i].to_account_id
             /\ records'[i].completed_at = records[i].completed_at]_vars

\* A Completed record is followed by the Failed record of a later transfer
\* that met a storage failure, and a payment method has been registered.
C13Witness ==
    /\ Len(records) = 2
    /\ records[1].status = "Completed"
    /\ records[2].status = "Failed"
    /\ records[2].owner # records[1].owner
    /\ result[records[2].owner] = "TransferEngineError"
    /\ methods # << >>

\* C16: the balance of an existing account changes only in the commit of a
\* transfer between that account and another; creating or updating an
\* account, registering a payment method and every read leave it alone.
C16OnlyTransfersChangeBalances ==
    [][/\ \A a \in DOMAIN balance :
            /\ a \in DOMAIN balance'
            /\ balance'[a] # balance[a]
               => \E r \in Reqs :
                     /\ pc[r] = "decide"
                     /\ pc'[r] = "refresh"
                     /\ a \in {data[r].from_account_id, data[r].to_account_id}
       /\ (profile' # profile \/ methods' # methods)
          => \A a \in DOMAIN balance : balance'[a] = balance[a]]_vars

\* An account that has sent or received money carries an e-mail address it
\* was not created with and a payment method.
C16Witness ==
    \E a \in DOMAIN balance :
        /\ balance[a] # initial[a]
        /\ profile[a].email # a
        /\ \E i \in 1..Len(methods) : methods[i].account_id = a

\* C17: list_account_transactions answers NotFound for a missing account
\* and otherwise exactly the records touching the account, oldest first,
\* without the first skip of them and cut at limit.
C17ListIsChronologicalPage ==
    \A a \in IdInputs, skip \in SkipInputs, limit \in LimitInputs :
        ListResponses(a, skip, limit) =
            IF Found(a)
            THEN {[status |-> "ok", items |-> Page(Touching(a), skip, limit)]}
            ELSE {[status |-> "NotFound", items |-> << >>]}

\* C21: whatever way create_transaction ended (Created, InvalidRequest,
\* NotFound, InsufficientBalance, TransferEngineError), the request holds
\* no account lock once it has returned and no transfer waits for it; a
\* handler that has finished always gets its session closed, so what it
\* still held is released.
C21NoLockAfterReturn ==
    /\ [](\A r \in Reqs :
            pc[r] = "done"
            => /\ result[r] # "none"
               /\ Held(r) = {}
               /\ \A q \in Reqs : ~WaitsFor(q, r))
    /\ \A r \in Reqs :
          (pc[r] = "closing") ~> (pc[r] = "done" /\ Held(r) = {})

\* A request that had locked its source and then missed its destination
\* has returned NotFound, and a later transfer holds the lock on that
\* same source account.
C21Witness ==
    \E r \in Reqs, q \in Reqs :
        /\ pc[r] = "done"
        /\ result[r] = "NotFound"
        /\ Found(data[r].from_account_id)
        /\ ~Found(data[r].to_account_id)
        /\ q > r
        /\ pc[q] \in {"lockTo", "decide"}
        /\ lock[data[r].from_account_id] = q

====
